---- MODULE Spec2Model ----
(***************************************************************************)
(* Model of cryptobot.py: a Discord client with one command handler        *)
(* (on_message, "!crypto SYMBOL FIAT CHANNEL_ID [AMOUNT]") and one periodic *)
(* task (update_crypto_prices) that re-fetches prices and edits the        *)
(* messages the command handler posted.  Both run on one cooperative event *)
(* loop: a coroutine is interleaved with the others at its awaits only.    *)
(* The price fetch uses the blocking requests library, so it is not a      *)
(* suspension point.                                                       *)
(***************************************************************************)
EXTENDS Integers, Sequences, FiniteSets, TLC

\* ------------------------------------------------------------------ bounds
\* Track commands that may reach the initial post (caps the store's size).
MaxPosts == 2

\* Handler invocations of on_message that may be in flight at once.
Handlers == {1, 2}

\* ------------------------------------------------------------- environment
\* Channel ids that commands name.  Channel 2 is never known to the client;
\* channel 1 is known at start and may leave and re-enter the client's cache.
ChannelIds == {1, 2}

\* Symbols of the commands.  images/BTC.png exists at start and may be
\* removed and added again.
Symbols == {"BTC"}

\* str.upper() on the tokens the commands use.
Upper(s) ==
  CASE s = "btc" -> "BTC"
    [] s = "usd" -> "USD"
    [] OTHER -> s

\* int(s): the strings int() accepts, with their values.
IntOf == ("1" :> 1) @@ ("2" :> 2)

\* float(s): the strings float() accepts, with their values in hundredths.
FloatOf == ("0" :> 0) @@ ("-1" :> -100) @@ ("0.5" :> 50) @@ ("1" :> 100) @@ ("2" :> 200)
             @@ ("50000.00" :> 5000000) @@ ("19.99" :> 1999) @@ ("0.07" :> 7)
             @@ ("-1.23" :> -123) @@ ("0.00" :> 0) @@ ("4.50" :> 450)

\* amount=1.0, the default of on_message and create_embed, in hundredths.
DefaultAmount == 100

\* ------------------------------------------------------------ price fetch
None == [isNone |-> TRUE, last |-> "", change |-> ""]

\* A local that holds no fetch result yet.
Unfetched == [isNone |-> FALSE, last |-> "", change |-> ""]

\* A pair entry of the API response; "missing" stands for an absent field.
Entry(l, c) == [isNone |-> FALSE, last |-> l, change |-> c]

GoodEntry == Entry("50000.00", "-1.23")

\* What requests.post can produce: an exception of the transport, a bad HTTP
\* status, or a JSON body with or without 'data' and the pair in it.
Response(t, d, p, e) == [t |-> t, hasData |-> d, hasPair |-> p, entry |-> e]

Responses ==
  { Response("transport", FALSE, FALSE, None),
    Response("status", FALSE, FALSE, None),
    Response("json", FALSE, FALSE, None),
    Response("json", TRUE, FALSE, None),
    Response("json", TRUE, TRUE, GoodEntry),
    Response("json", TRUE, TRUE, Entry("missing", "-1.23")),
    Response("json", TRUE, TRUE, Entry("abc", "-1.23")) }

\* The pair entry deviates from {last: number, priceChangePercentage: number}.
Malformed(e) ==
  ~e.isNone /\ (e.last \notin DOMAIN FloatOf \/ e.change \notin DOMAIN FloatOf)

get_crypto_data(resp) ==
  IF resp.t \in {"transport", "status"} THEN None
  ELSE IF ~resp.hasData \/ ~resp.hasPair THEN None
  ELSE resp.entry

\* ------------------------------------------------------------------ store
\* In memory the cache is a dict in insertion order: a sequence of records,
\* each carrying its key.  The file holds the JSON text json.dump writes for
\* it: one member per key, its value an object whose numbers are written as
\* number text and read back by json.load.  A missing file loads as the
\* empty dict.

\* The amounts float() can hand to a track command, in hundredths.
Floats == {FloatOf[s] : s \in DOMAIN FloatOf} \cup {DefaultAmount}

\* json's text of an int, and the int of a number text.
IntText(n) == ToString(n)

\* The ints by their number text.
IntOfText == [t \in {IntText(n) : n \in 0..9} |-> CHOOSE n \in 0..9 : IntText(n) = t]

IntValue(t) == IF t \in DOMAIN IntOfText THEN IntOfText[t] ELSE 0

\* json's text of a float (float.__repr__) for a value in hundredths:
\* 1.0, 0.5, 0.25, -1.0.
FloatText(a) ==
  LET m == IF a < 0 THEN 0 - a ELSE a
      frac == m % 100
  IN (IF a < 0 THEN "-" ELSE "") \o ToString(m \div 100) \o "." \o
     (IF frac % 10 = 0 THEN ToString(frac \div 10)
      ELSE ToString(frac \div 10) \o ToString(frac % 10))

\* The number json.load makes of a number text, in hundredths: a float for
\* text with a fraction, an int (equal to the float of that value) without.
\* The floats by their number text.
FloatOfText == [t \in {FloatText(a) : a \in Floats} |-> CHOOSE a \in Floats : FloatText(a) = t]

NumberValue(t) == IF t \in DOMAIN FloatOfText THEN FloatOfText[t] ELSE 100 * IntValue(t)

\* The JSON member json.dump writes for one item of the dict.
Member(rec) ==
  [k |-> rec.key,
   v |-> [message_id |-> IntText(rec.message_id), symbol |-> rec.symbol,
          fiat |-> rec.fiat, amount |-> FloatText(rec.amount),
          channel_id |-> IntText(rec.channel_id)]]

\* The item json.load makes of one member.
Item(mem) ==
  [key |-> mem.k, message_id |-> IntValue(mem.v.message_id), symbol |-> mem.v.symbol,
   fiat |-> mem.v.fiat, amount |-> NumberValue(mem.v.amount),
   channel_id |-> IntValue(mem.v.channel_id)]

\* load_cache with a bug: the items come back in reverse order.
load_cache_Reversed(f) == [i \in 1..Len(f) |-> Item(f[Len(f) + 1 - i])]

\* Lines 44-48: json.load of the file.
load_cache(f) == [i \in 1..Len(f) |-> Item(f[i])]

\* save_cache with a bug: the amount is written as a whole number.
save_cache_WholeAmounts(cache) ==
  [i \in 1..Len(cache) |->
     [Member(cache[i]) EXCEPT !.v.amount = IntText(cache[i].amount \div 100)]]

\* Lines 51-53: json.dump of the whole dict over the file's old content.
save_cache(cache) == [i \in 1..Len(cache) |-> Member(cache[i])]

IndexOfKey(cache, k) ==
  IF \E i \in 1..Len(cache) : cache[i].key = k
  THEN CHOOSE i \in 1..Len(cache) : cache[i].key = k
  ELSE 0

\* cache[key] = value: replaces in place when the key is there, else appends.
DictSet(cache, rec) ==
  LET i == IndexOfKey(cache, rec.key) IN
  IF i = 0 THEN Append(cache, rec) ELSE [cache EXCEPT ![i] = rec]

\* ---------------------------------------------------------------- presenter
\* Format2 with a bug: the text has one decimal place.
Format2_OneDecimal(v) ==
  LET m == IF v < 0 THEN 0 - v ELSE v
      q == (m + 500) \div 1000
  IN (IF v < 0 THEN "-" ELSE "") \o ToString(q \div 10) \o "." \o ToString(q % 10)

\* f"{x:.2f}" for a value v in ten-thousandths (the unit of price * amount,
\* both in hundredths): the sign, the whole part, a point and two digits.
\* The value is rounded to the nearest hundredth; a value midway between two
\* hundredths is rounded by the binary float and belongs to no input here.
Format2(v) ==
  LET m == IF v < 0 THEN 0 - v ELSE v
      q == (m + 50) \div 100
  IN (IF v < 0 THEN "-" ELSE "") \o ToString(q \div 100) \o "." \o
     ToString((q % 100) \div 10) \o ToString(q % 10)

\* The embed of an input create_embed rejects.
NoEmbed(e, symbol) ==
  [err |-> e, image_path |-> symbol, price |-> "", change |-> "", total |-> ""]

\* Lines 56-81.  data['last'] and data['priceChangePercentage'] raise
\* KeyError when the field is missing and float() raises ValueError when it
\* rejects it; else the fields Price, 24h Change and Value of {amount}
\* {symbol} get their texts, and the image path is handed back.
create_embed(symbol, fiat, data, amount) ==
  IF data.last = "missing" \/ data.change = "missing" THEN NoEmbed("KeyError", symbol)
  ELSE IF data.last \notin DOMAIN FloatOf \/ data.change \notin DOMAIN FloatOf
    THEN NoEmbed("ValueError", symbol)
  ELSE LET price == FloatOf[data.last]
           percent_change == FloatOf[data.change]
           total_value == price * amount
       IN [err |-> "none", image_path |-> symbol,
           price |-> fiat \o " " \o Format2(100 * price),
           change |-> Format2(100 * percent_change) \o "%",
           total |-> fiat \o " " \o Format2(total_value)]

\* --------------------------------------------------------------- messages
\* message.content.split() of the messages users (and the bot) send.
Message(a, c) == [author |-> a, content |-> c]

TrackCommands ==
  { <<"!crypto", "btc", "usd", "1">>,          \* well-formed, amount omitted
    <<"!crypto", "BTC", "USD", "1", "0.5">>,   \* well-formed, with an amount
    <<"!crypto", "btc", "usd", "2">>,          \* channel the client does not know
    <<"!crypto", "btc", "usd", "x">>,          \* channel id is no integer
    <<"!crypto", "btc", "usd", "1", "abc">>,   \* amount is no number
    <<"!crypto", "btc">> }                     \* too few arguments

Messages ==
  { Message("user", c) : c \in TrackCommands }
    \cup { Message("user", <<"hello">>), Message("bot", <<"!crypto", "btc", "usd", "1">>) }

\* Commands that differ in the amount only, among them amounts that are not
\* positive.
AmountMessages ==
  { Message("user", <<"!crypto", "btc", "usd", "1">>) }
    \cup { Message("user", <<"!crypto", "btc", "usd", "1", a>>) : a \in {"0", "-1", "0.5", "2"} }

\* ParseCommand with a bug: an amount float() rejects falls back to the default.
ParseCommand_BadAmountDefaults(parts) ==
  LET bad(e) == [err |-> e, symbol |-> "", fiat |-> "", channel_id |-> 0, amount |-> 0] IN
  IF Len(parts) < 4 THEN bad("IndexError")
  ELSE IF parts[4] \notin DOMAIN IntOf THEN bad("ValueError")
  ELSE [err |-> "none", symbol |-> Upper(parts[2]), fiat |-> Upper(parts[3]),
        channel_id |-> IntOf[parts[4]],
        amount |-> IF Len(parts) > 4 /\ parts[5] \in DOMAIN FloatOf
                   THEN FloatOf[parts[5]] ELSE DefaultAmount]

\* Lines 91-95: parts[1], parts[2], parts[3] raise IndexError when absent,
\* int() and float() raise ValueError; parts[4] is optional.
ParseCommand(parts) ==
  LET bad(e) == [err |-> e, symbol |-> "", fiat |-> "", channel_id |-> 0, amount |-> 0] IN
  IF Len(parts) < 4 THEN bad("IndexError")
  ELSE IF parts[4] \notin DOMAIN IntOf THEN bad("ValueError")
  ELSE IF Len(parts) > 4 /\ parts[5] \notin DOMAIN FloatOf THEN bad("ValueError")
  ELSE [err |-> "none", symbol |-> Upper(parts[2]), fiat |-> Upper(parts[3]),
        channel_id |-> IntOf[parts[4]],
        amount |-> IF Len(parts) > 4 THEN FloatOf[parts[5]] ELSE DefaultAmount]

\* MessageKey with a bug: the key does not end with the number of records.
MessageKey_NoLen(channel_id, symbol, fiat, cache) ==
  ToString(channel_id) \o "-" \o symbol \o "-" \o fiat

\* Line 106: f"{channel_id}-{symbol}-{fiat}-{len(cache)}".
MessageKey(channel_id, symbol, fiat, cache) ==
  ToString(channel_id) \o "-" \o symbol \o "-" \o fiat \o "-" \o ToString(Len(cache))

\* NewRecord with a bug: the record does not carry the id channel.send returned.
NewRecord_NoSentId(key, sent_id, symbol, fiat, amount, channel_id) ==
  [key |-> key, message_id |-> 0, symbol |-> symbol, fiat |-> fiat,
   amount |-> amount, channel_id |-> channel_id]

\* Lines 110-116: the record stored under message_key.
NewRecord(key, sent_id, symbol, fiat, amount, channel_id) ==
  [key |-> key, message_id |-> sent_id, symbol |-> symbol, fiat |-> fiat,
   amount |-> amount, channel_id |-> channel_id]

\* ------------------------------------------------------------------ state
VARIABLES
  file,       \* crypto_cache.json: the persisted store
  channels,   \* channel ids client.get_channel resolves
  images,     \* symbols whose image file exists
  nextId,     \* id the next message posted by the bot gets
  posted,     \* ids of the messages channel.send returned to a track command
  exists,     \* ids of the posted messages that still exist
  hpc,        \* per handler: "idle", "post" (line 109), "reply" (99, 119, 122)
  hmsg,       \* per handler: the message being handled
  hloc,       \* per handler: locals live across the await of line 109
  hreply,     \* per handler: the reply being sent; an error reply carries {e}
  loop,       \* update_crypto_prices: "unstarted", "idle", "item",
              \* "fetch_message", "edit", "edit_attachments", "failed"
  cache,      \* the tick's local cache (line 128)
  idx,        \* position of the tick in cache.items()
  tdata,      \* the tick's local crypto_data (line 138)
  outcome,    \* per item of the tick: how its processing ended
  attempted,  \* items of the tick for which fetch_message was called
  fetches,    \* items of the tick for which get_crypto_data was called
  edited,     \* ids of the messages the tick has edited
  loopErr,    \* the exception that left the last tick, or "none"
  written,    \* what the command handlers' last save_cache call wrote
  rin,        \* arguments of a create_embed call
  rout        \* the embed that call returned

hvars == <<hpc, hmsg, hloc, hreply>>
tvars == <<loop, cache, idx, tdata, outcome, attempted, fetches, edited, loopErr>>
evars == <<channels, images>>
mvars == <<nextId, posted, exists>>
rvars == <<rin, rout>>
vars == <<file, channels, images, nextId, posted, exists, hpc, hmsg, hloc,
          hreply, loop, cache, idx, tdata, outcome, attempted, fetches, edited,
          loopErr, written, rin, rout>>

NoMessage == Message("", <<>>)
NoLocals == [data |-> Unfetched, loaded |-> FALSE, cache |-> <<>>, key |-> "",
             symbol |-> "", fiat |-> "", amount |-> 0, channel_id |-> 0]

\* The arguments and the result of a call that was not made.
NoCall == [symbol |-> "", fiat |-> "", data |-> Unfetched, amount |-> 0]

NotRendered == NoEmbed("", "")

\* The bot before it connects: no store file, no message posted, no handler
\* running, the refresh task not started.
BotInit ==
  /\ file = <<>>
  /\ channels = {1}
  /\ images = {"BTC"}
  /\ nextId = 1
  /\ posted = {}
  /\ exists = {}
  /\ hpc = [h \in Handlers |-> "idle"]
  /\ hmsg = [h \in Handlers |-> NoMessage]
  /\ hloc = [h \in Handlers |-> NoLocals]
  /\ hreply = [h \in Handlers |-> "none"]
  /\ loop = "unstarted"
  /\ cache = <<>>
  /\ idx = 0
  /\ tdata = Unfetched
  /\ outcome = <<>>
  /\ attempted = {}
  /\ fetches = {}
  /\ edited = {}
  /\ loopErr = "none"
  /\ written = <<>>

Init ==
  /\ BotInit
  /\ rin = NoCall
  /\ rout = NotRendered

\* ------------------------------------------------------------- on_message
\* on_message_sync without lines 98-100: an absent snapshot reaches create_embed.
on_message_sync_NoAbsentCheck(msg, resp, f, chans, imgs) ==
  LET ret(n, r, l) == [next |-> n, reply |-> r, loc |-> l]
      p == ParseCommand(msg.content)
      data == get_crypto_data(resp)
      emb == create_embed(p.symbol, p.fiat, data, p.amount)
      c == load_cache(f)
      fetched == [NoLocals EXCEPT !.data = data]
      loaded == [fetched EXCEPT !.loaded = TRUE]
  IN
  IF msg.author = "bot" THEN ret("return", "none", NoLocals)
  ELSE IF msg.content[1] # "!crypto" THEN ret("return", "none", NoLocals)
  ELSE IF p.err # "none" THEN ret("reply", p.err, NoLocals)
  \* create_embed subscripts None
  ELSE IF data = None THEN ret("reply", "TypeError", fetched)
  ELSE IF emb.err # "none" THEN ret("reply", emb.err, fetched)
  \* channel is None: channel.send raises AttributeError
  ELSE IF p.channel_id \notin chans THEN ret("reply", "AttributeError", loaded)
  \* discord.File(image_path) opens the file: FileNotFoundError
  ELSE IF emb.image_path \notin imgs THEN ret("reply", "FileNotFoundError", loaded)
  ELSE ret("post", "none",
           [data |-> data, loaded |-> TRUE, cache |-> c,
            key |-> MessageKey(p.channel_id, p.symbol, p.fiat, c),
            symbol |-> p.symbol, fiat |-> p.fiat, amount |-> p.amount,
            channel_id |-> p.channel_id])

\* Lines 86-109 up to the first await: what the handler does with a message,
\* given the API's answer, the store file, the resolvable channels and the
\* image files.  next is "return" (message ignored), "reply" or "post"; reply
\* is "could_not_fetch" (line 99) or the exception line 122 reports.
on_message_sync(msg, resp, f, chans, imgs) ==
  LET ret(n, r, l) == [next |-> n, reply |-> r, loc |-> l]
      p == ParseCommand(msg.content)
      data == get_crypto_data(resp)
      emb == create_embed(p.symbol, p.fiat, data, p.amount)
      c == load_cache(f)
      fetched == [NoLocals EXCEPT !.data = data]
      loaded == [fetched EXCEPT !.loaded = TRUE]
  IN
  IF msg.author = "bot" THEN ret("return", "none", NoLocals)
  ELSE IF msg.content[1] # "!crypto" THEN ret("return", "none", NoLocals)
  ELSE IF p.err # "none" THEN ret("reply", p.err, NoLocals)
  ELSE IF data = None THEN ret("reply", "could_not_fetch", fetched)
  ELSE IF emb.err # "none" THEN ret("reply", emb.err, fetched)
  \* channel is None: channel.send raises AttributeError
  ELSE IF p.channel_id \notin chans THEN ret("reply", "AttributeError", loaded)
  \* discord.File(image_path) opens the file: FileNotFoundError
  ELSE IF emb.image_path \notin imgs THEN ret("reply", "FileNotFoundError", loaded)
  ELSE ret("post", "none",
           [data |-> data, loaded |-> TRUE, cache |-> c,
            key |-> MessageKey(p.channel_id, p.symbol, p.fiat, c),
            symbol |-> p.symbol, fiat |-> p.fiat, amount |-> p.amount,
            channel_id |-> p.channel_id])

\* The handler reaches the price fetch of line 97 for msg.
ReachesFetch(msg) ==
  /\ msg.author # "bot"
  /\ msg.content[1] = "!crypto"
  /\ ParseCommand(msg.content).err = "none"

\* The API's possible answers to the handler of msg; none when it asks nothing.
ResponsesFor(msg) == IF ReachesFetch(msg) THEN Responses ELSE {Response("transport", FALSE, FALSE, None)}

\* Posts that are or may still be made, against the bound.
PostsInFlight == (nextId - 1) + Cardinality({h \in Handlers : hpc[h] = "post"})

OnMessage(h, msg, resp) ==
  /\ hpc[h] = "idle"
  /\ \A g \in Handlers : g < h => hpc[g] # "idle"   \* handlers are interchangeable
  /\ LET r == on_message_sync(msg, resp, file, channels, images) IN
     /\ r.next = "post" => PostsInFlight < MaxPosts
     /\ IF r.next = "return"
        THEN UNCHANGED hvars
        ELSE /\ hpc' = [hpc EXCEPT ![h] = r.next]
             /\ hmsg' = [hmsg EXCEPT ![h] = msg]
             /\ hloc' = [hloc EXCEPT ![h] = r.loc]
             /\ hreply' = [hreply EXCEPT ![h] = r.reply]
  /\ UNCHANGED <<file, evars, mvars, tvars, written>>

\* Line 109 returns or raises; lines 110-117 run before the next await.
PostDone(h, res) ==
  /\ hpc[h] = "post"
  /\ IF res = "ok"
     THEN LET l == hloc[h]
              rec == NewRecord(l.key, nextId, l.symbol, l.fiat, l.amount, l.channel_id)
          IN
          /\ nextId' = nextId + 1
          /\ posted' = posted \cup {nextId}
          /\ exists' = exists \cup {nextId}
          /\ file' = save_cache(DictSet(l.cache, rec))
          /\ written' = save_cache(DictSet(l.cache, rec))
          /\ hreply' = [hreply EXCEPT ![h] = "tracking"]
     ELSE /\ hreply' = [hreply EXCEPT ![h] = res]
          /\ UNCHANGED <<file, mvars, written>>
  /\ hpc' = [hpc EXCEPT ![h] = "reply"]
  /\ UNCHANGED <<hmsg, hloc, evars, tvars>>

\* message.channel.send of lines 99, 119 and 122 returns; the handler ends.
ReplyDone(h) ==
  /\ hpc[h] = "reply"
  /\ hpc' = [hpc EXCEPT ![h] = "idle"]
  /\ hmsg' = [hmsg EXCEPT ![h] = NoMessage]
  /\ hloc' = [hloc EXCEPT ![h] = NoLocals]
  /\ hreply' = [hreply EXCEPT ![h] = "none"]
  /\ UNCHANGED <<file, evars, mvars, tvars, written>>

\* ---------------------------------------------------- update_crypto_prices
\* discord.ext.tasks.Loop: an exception of the task's reconnect set (OSError,
\* ...) ends the iteration and the loop retries after a
\* backoff; any other exception ends the task for good.
ValidExceptions == {"OSError"}

loop_on_exception(exc) == IF exc \in ValidExceptions THEN "idle" ELSE "failed"

\* tick_item_sync without lines 135-136: channel is None at line 145.
tick_item_sync_NoChannelCheck(rec, resp, chans) ==
  LET data == get_crypto_data(resp)
      emb == create_embed(rec.symbol, rec.fiat, data, rec.amount)
  IN
  IF data = None THEN [next |-> "absent", err |-> "none", fetched |-> TRUE]
  ELSE IF emb.err # "none" THEN [next |-> "raise", err |-> emb.err, fetched |-> TRUE]
  ELSE IF rec.channel_id \notin chans
    THEN [next |-> "raise", err |-> "AttributeError", fetched |-> TRUE]
  ELSE [next |-> "fetch_message", err |-> "none", fetched |-> TRUE]

\* tick_item_sync with lines 134-136 after the fetch of line 138: the price
\* is fetched before the channel is looked at.
tick_item_sync_FetchBeforeChannel(rec, resp, chans) ==
  LET data == get_crypto_data(resp)
      emb == create_embed(rec.symbol, rec.fiat, data, rec.amount)
  IN
  IF rec.channel_id \notin chans THEN [next |-> "nochannel", err |-> "none", fetched |-> TRUE]
  ELSE IF data = None THEN [next |-> "absent", err |-> "none", fetched |-> TRUE]
  ELSE IF emb.err # "none" THEN [next |-> "raise", err |-> emb.err, fetched |-> TRUE]
  ELSE [next |-> "fetch_message", err |-> "none", fetched |-> TRUE]

\* tick_item_sync without lines 139-140: create_embed subscripts None.
tick_item_sync_NoAbsentCheck(rec, resp, chans) ==
  LET data == get_crypto_data(resp)
      emb == create_embed(rec.symbol, rec.fiat, data, rec.amount)
  IN
  IF rec.channel_id \notin chans THEN [next |-> "nochannel", err |-> "none", fetched |-> FALSE]
  ELSE IF data = None THEN [next |-> "raise", err |-> "TypeError", fetched |-> TRUE]
  ELSE IF emb.err # "none" THEN [next |-> "raise", err |-> emb.err, fetched |-> TRUE]
  ELSE [next |-> "fetch_message", err |-> "none", fetched |-> TRUE]

\* Lines 130-142, up to the await of line 145: how the synchronous part of an
\* item's processing ends, and whether it reached the fetch of line 138.
tick_item_sync(rec, resp, chans) ==
  LET data == get_crypto_data(resp)
      emb == create_embed(rec.symbol, rec.fiat, data, rec.amount)
  IN
  IF rec.channel_id \notin chans THEN [next |-> "nochannel", err |-> "none", fetched |-> FALSE]
  ELSE IF data = None THEN [next |-> "absent", err |-> "none", fetched |-> TRUE]
  ELSE IF emb.err # "none" THEN [next |-> "raise", err |-> emb.err, fetched |-> TRUE]
  ELSE [next |-> "fetch_message", err |-> "none", fetched |-> TRUE]

\* except_handler with a bug: discord.NotFound is not caught.
except_handler_Propagates(exc) == "propagate"

\* Lines 144-150: the try block catches discord.NotFound and nothing else.
except_handler(exc) == IF exc = "NotFound" THEN "continue" ELSE "propagate"

\* tick_store with a bug: the tick saves its local cache after each item.
tick_store_Saves(f, c) == save_cache(c)

\* update_crypto_prices holds no save_cache call: the file after an item of
\* the tick is the file before it, whatever the tick's local cache holds.
tick_store(f, c) == f

\* tick_items with a bug: the tick reads the store again for each item.
tick_items_Reloads(c, f) == load_cache(f)

\* Line 129 iterates over the dict line 128 loaded: when an await of the tick
\* returns, its items are the items it had before, whatever the file holds
\* by then.
tick_items(c, f) == c

\* tick_posts with a bug: the tick sends a new message for the item.
tick_posts_Reposts(ids, n) == ids \cup {n}

\* update_crypto_prices holds no channel.send call: the messages the bot has
\* posted are the same after an item of the tick as before it.
tick_posts(ids, n) == ids

\* What fetch_message and edit can do with message id: the message is gone
\* (discord.NotFound), the call succeeds, or it fails otherwise.
ApiResults(id) == IF id \in exists THEN {"ok", "Forbidden"} ELSE {"NotFound"}

\* update_crypto_prices returns or raises: its locals are gone.
EndTick ==
  /\ cache' = <<>>
  /\ idx' = 0
  /\ tdata' = Unfetched
  /\ outcome' = <<>>
  /\ attempted' = {}
  /\ fetches' = {}
  /\ edited' = {}

\* The item at idx ends with outcome o: the for loop moves to the next item,
\* or the tick ends.  att is the set of items fetch_message was called for,
\* fs the set of items the price was fetched for, ed the ids of the messages
\* edited, d the value of crypto_data.
Advance(o, att, fs, ed, d) ==
  /\ IF idx + 1 > Len(cache)
     THEN /\ EndTick
          /\ loop' = "idle"
     ELSE /\ outcome' = [outcome EXCEPT ![idx] = o]
          /\ attempted' = att
          /\ fetches' = fs
          /\ idx' = idx + 1
          /\ loop' = "item"
          /\ tdata' = d
          /\ edited' = ed
          /\ cache' = tick_items(cache, file)
  /\ file' = tick_store(file, cache)
  /\ posted' = tick_posts(posted, nextId)
  /\ UNCHANGED <<loopErr, nextId, exists>>

\* The exception exc leaves update_crypto_prices.
Abort(exc) ==
  /\ EndTick
  /\ loop' = loop_on_exception(exc)
  /\ loopErr' = exc
  /\ UNCHANGED <<file, mvars>>

\* The exception exc raised inside the try block of lines 144-150.
Raised(exc, att) ==
  IF except_handler(exc) = "continue"
  THEN Advance("notfound", att, fetches, edited, tdata)
  ELSE Abort(exc)

\* on_ready: update_crypto_prices.start().  Discord may dispatch on_ready
\* again after a reconnect; start() raises RuntimeError while the task runs.
OnReady ==
  /\ IF loop \in {"unstarted", "failed"}
     THEN loop' = "idle"
     ELSE UNCHANGED loop
  /\ UNCHANGED <<file, evars, mvars, hvars, cache, idx, tdata, outcome,
                 attempted, fetches, edited, loopErr, written>>

\* The timer fires: line 128.  open() may raise OSError.
TickStart(lr) ==
  /\ loop = "idle"
  /\ IF lr = "ok" /\ Len(load_cache(file)) > 0
     THEN /\ cache' = load_cache(file)
          /\ idx' = 1
          /\ tdata' = Unfetched
          /\ outcome' = [i \in 1..Len(load_cache(file)) |-> "pending"]
          /\ attempted' = {}
          /\ fetches' = {}
          /\ edited' = {}
          /\ loop' = "item"
          /\ loopErr' = "none"
     ELSE /\ EndTick
          /\ loop' = IF lr = "ok" THEN "idle" ELSE loop_on_exception(lr)
          /\ loopErr' = IF lr = "ok" THEN "none" ELSE lr
  /\ UNCHANGED <<file, evars, mvars, hvars, written>>

\* Lines 130-142 for the item at idx.
TickItem(resp) ==
  /\ loop = "item"
  /\ LET r == tick_item_sync(cache[idx], resp, channels)
         d == IF r.fetched THEN get_crypto_data(resp) ELSE tdata
         fs == IF r.fetched THEN fetches \cup {idx} ELSE fetches
     IN
     CASE r.next \in {"nochannel", "absent"} -> Advance(r.next, attempted, fs, edited, d)
       [] r.next = "raise" -> Abort(r.err)
       [] OTHER -> /\ loop' = "fetch_message"
                   /\ tdata' = d
                   /\ fetches' = fs
                   /\ UNCHANGED <<file, mvars, cache, idx, outcome, attempted, edited, loopErr>>
  /\ UNCHANGED <<evars, hvars, written>>

\* Line 145: channel.fetch_message(data['message_id']).
TickFetchMessage(res) ==
  /\ loop = "fetch_message"
  /\ res \in ApiResults(cache[idx].message_id)
  /\ IF res = "ok"
     THEN /\ loop' = "edit"
          /\ attempted' = attempted \cup {idx}
          /\ cache' = tick_items(cache, file)
          /\ UNCHANGED <<file, mvars, idx, tdata, outcome, fetches, edited, loopErr>>
     ELSE Raised(res, attempted \cup {idx})
  /\ UNCHANGED <<evars, hvars, written>>

\* Line 146: cached_message.edit(embed=embed) on the message line 145
\* fetched; line 147 decides on line 148.
TickEdit(res) ==
  /\ loop = "edit"
  /\ res \in ApiResults(cache[idx].message_id)
  /\ IF res = "ok"
     THEN IF cache[idx].symbol \in images
          THEN /\ loop' = "edit_attachments"
               /\ outcome' = [outcome EXCEPT ![idx] = "edited"]
               /\ edited' = edited \cup {cache[idx].message_id}
               /\ cache' = tick_items(cache, file)
               /\ UNCHANGED <<file, mvars, idx, tdata, attempted, fetches, loopErr>>
          ELSE Advance("edited", attempted, fetches,
                       edited \cup {cache[idx].message_id}, tdata)
     ELSE Raised(res, attempted)
  /\ UNCHANGED <<evars, hvars, written>>

\* Line 148: cached_message.edit(attachments=[...]) on the same message.
TickEditAttachments(res) ==
  /\ loop = "edit_attachments"
  /\ res \in ApiResults(cache[idx].message_id)
  /\ IF res = "ok"
     THEN Advance("edited", attempted, fetches, edited, tdata)
     ELSE Raised(res, attempted)
  /\ UNCHANGED <<evars, hvars, written>>

\* ------------------------------------------------------------ environment
\* A user deletes a message the bot posted.
DeleteMessage(id) ==
  /\ id \in exists
  /\ exists' = exists \ {id}
  /\ UNCHANGED <<file, evars, nextId, posted, hvars, tvars, written>>

\* Channel 1 leaves or re-enters the client's channel cache.
ToggleChannel ==
  /\ channels' = IF 1 \in channels THEN channels \ {1} ELSE channels \cup {1}
  /\ UNCHANGED <<file, images, mvars, hvars, tvars, written>>

\* images/BTC.png is removed or created.
ToggleImage ==
  /\ images' = IF "BTC" \in images THEN images \ {"BTC"} ELSE images \cup {"BTC"}
  /\ UNCHANGED <<file, channels, mvars, hvars, tvars, written>>

\* ---------------------------------------------------------- specification
\* Sending a reply is a handler's last step and touches nothing the other
\* coroutines read, so every interleaving is equivalent to one in which a
\* pending reply is sent before anything else runs.
ReplyPending == \E h \in Handlers : hpc[h] = "reply"

Ready == ~ReplyPending /\ OnReady /\ UNCHANGED rvars

TickStarts ==
  ~ReplyPending /\ (\E lr \in {"ok", "OSError"} : TickStart(lr)) /\ UNCHANGED rvars

TickItems == ~ReplyPending /\ (\E resp \in Responses : TickItem(resp)) /\ UNCHANGED rvars

TickFetches ==
  /\ ~ReplyPending
  /\ \E res \in {"ok", "NotFound", "Forbidden"} : TickFetchMessage(res)
  /\ UNCHANGED rvars

TickEdits ==
  /\ ~ReplyPending
  /\ \E res \in {"ok", "NotFound", "Forbidden"} : TickEdit(res)
  /\ UNCHANGED rvars

TickEditsAttachments ==
  /\ ~ReplyPending
  /\ \E res \in {"ok", "NotFound", "Forbidden"} : TickEditAttachments(res)
  /\ UNCHANGED rvars

\* A message arrives while no handler is between its load and its save.
ReceivesInTurn ==
  /\ \A h \in Handlers : hpc[h] = "idle"
  /\ \E h \in Handlers, msg \in Messages :
       \E resp \in ResponsesFor(msg) : OnMessage(h, msg, resp)
  /\ UNCHANGED rvars

Receives ==
  /\ ~ReplyPending
  /\ \E h \in Handlers, msg \in Messages :
       \E resp \in ResponsesFor(msg) : OnMessage(h, msg, resp)
  /\ UNCHANGED rvars

Posts ==
  /\ ~ReplyPending
  /\ \E h \in Handlers, res \in {"ok", "Forbidden"} : PostDone(h, res)
  /\ UNCHANGED rvars

Replies == (\E h \in Handlers : ReplyDone(h)) /\ UNCHANGED rvars

Deletes == ~ReplyPending /\ (\E id \in posted : DeleteMessage(id)) /\ UNCHANGED rvars

ChannelChanges == ~ReplyPending /\ ToggleChannel /\ UNCHANGED rvars

ImageChanges == ~ReplyPending /\ ToggleImage /\ UNCHANGED rvars

Next ==
  \/ Ready
  \/ TickStarts
  \/ TickItems
  \/ TickFetches
  \/ TickEdits
  \/ TickEditsAttachments
  \/ Receives
  \/ Posts
  \/ Replies
  \/ Deletes
  \/ ChannelChanges
  \/ ImageChanges

Spec == Init /\ [][Next]_vars

\* Track commands one after another: a handler starts only when no other is
\* running.  The refresh task and the environment run as before.
NextInTurn ==
  \/ Ready
  \/ TickStarts
  \/ TickItems
  \/ TickFetches
  \/ TickEdits
  \/ TickEditsAttachments
  \/ ReceivesInTurn
  \/ Posts
  \/ Replies
  \/ Deletes
  \/ ChannelChanges
  \/ ImageChanges

SpecInTurn == Init /\ [][NextInTurn]_vars

\* The command handlers alone, on commands with any amount float() accepts.
ReceivesAmounts ==
  /\ ~ReplyPending
  /\ \E h \in Handlers, msg \in AmountMessages :
       \E resp \in Responses : OnMessage(h, msg, resp)
  /\ UNCHANGED rvars

NextAmounts ==
  \/ ReceivesAmounts
  \/ Posts
  \/ Replies

SpecAmounts == Init /\ [][NextAmounts]_vars

\* create_embed alone, on valid arguments: a symbol, a fiat currency, a
\* snapshot with numeric fields and an amount in hundredths.  Arguments whose
\* total lies midway between two hundredths are left out (see Format2).
EmbedArguments ==
  { a \in [symbol : Symbols, fiat : {"USD", "EUR"},
           data : {Entry(l, c) : l \in {"50000.00", "19.99", "0.07"},
                                 c \in {"-1.23", "0.00", "4.50"}},
           amount : {200, 100, 50, 25, 3}] :
      (FloatOf[a.data.last] * a.amount) % 100 # 50 }

InitEmbed ==
  /\ BotInit
  /\ rin \in EmbedArguments
  /\ rout = NotRendered

Render ==
  /\ rout = NotRendered
  /\ rout' = create_embed(rin.symbol, rin.fiat, rin.data, rin.amount)
  /\ UNCHANGED <<file, evars, mvars, hvars, tvars, written, rin>>

NextEmbed == Render

SpecEmbed == InitEmbed /\ [][NextEmbed]_vars

\* ------------------------------------------------------------------ claims
TickRunning == loop \in {"item", "fetch_message", "edit", "edit_attachments"}

AtAwait == loop \in {"fetch_message", "edit", "edit_attachments"}

\* A step of update_crypto_prices was taken.
TickMoved == <<loop, idx, outcome, attempted>>' # <<loop, idx, outcome, attempted>>

Records(c) == {c[i] : i \in 1..Len(c)}

\* The command is of the shape !crypto SYMBOL FIAT CHANNEL_ID [AMOUNT].
WellFormed(msg) ==
  /\ msg.author = "user"
  /\ Len(msg.content) >= 4
  /\ msg.content[1] = "!crypto"
  /\ msg.content[4] \in DOMAIN IntOf
  /\ Len(msg.content) > 4 => msg.content[5] \in DOMAIN FloatOf

\* C1: an item whose channel cannot be resolved, whose price fetch returns
\* absent or whose message is gone never ends the tick: no exception of these
\* three failures leaves update_crypto_prices, and while the tick runs every
\* item before the current one was handled and every later one is still to come.
C1_FailedItemDoesNotEndTick ==
  /\ loopErr \notin {"AttributeError", "TypeError", "NotFound"}
  /\ TickRunning =>
       /\ idx \in 1..Len(cache)
       /\ \A i \in 1..(idx - 1) : outcome[i] \in {"nochannel", "absent", "notfound", "edited"}
       /\ \A i \in (idx + 1)..Len(cache) : outcome[i] = "pending"

\* The second item is being edited after the first one failed.
C1_Witness ==
  /\ loop = "edit_attachments"
  /\ idx = 2
  /\ outcome[1] \in {"nochannel", "absent", "notfound"}

\* C2: when the tick fetches or edits a message that no longer exists, the
\* tick goes on to the next item (or ends) without an exception, and its step
\* leaves the store file as it is: the stale record is neither removed nor
\* repaired.
C2_MissingMessageIsSkipped ==
  [][ (AtAwait /\ cache[idx].message_id \notin exists /\ TickMoved) =>
        /\ loop' \in {"item", "idle"}
        /\ loopErr' = loopErr
        /\ file' = file
        /\ loop' = "item" => (idx' = idx + 1 /\ outcome'[idx] = "notfound") ]_vars

\* The tick passed an item whose message is gone; its record is in the store.
C2_Witness ==
  /\ loop = "item"
  /\ idx = 2
  /\ outcome[1] = "notfound"
  /\ cache[1] \in Records(load_cache(file))
  /\ cache[1].message_id \notin exists

\* C3: when the price fetch of an item returns absent, the tick calls neither
\* fetch_message nor edit for that item, and no exception leaves the tick.
C3_AbsentMeansNoEdit ==
  /\ AtAwait => tdata # None
  /\ \A i \in 1..Len(outcome) : outcome[i] = "absent" => i \notin attempted
  /\ loopErr # "TypeError"

\* The tick went past an item whose fetch returned absent.
C3_Witness ==
  /\ loop = "item"
  /\ idx = 2
  /\ outcome[1] = "absent"
  /\ tdata = None
  /\ attempted = {}

\* C4: a pair entry that lacks a field or holds a non-numeric value is treated
\* as pair not found: no KeyError or ValueError of create_embed leaves the
\* tick, and a command answers with the could-not-fetch reply.
C4_MalformedEntryIsAbsent ==
  /\ loopErr \notin {"KeyError", "ValueError"}
  /\ \A h \in Handlers :
       (hpc[h] = "reply" /\ WellFormed(hmsg[h])) => hreply[h] \notin {"KeyError", "ValueError"}

\* C5: a well-formed track command for a channel the client knows, whose price
\* fetch returned a snapshot and whose post was not refused, ends with the
\* tracking confirmation and its record in the store.
C5_TrackCommandPostsAndStores ==
  \A h \in Handlers :
    ( /\ hpc[h] = "reply"
      /\ WellFormed(hmsg[h])
      /\ IntOf[hmsg[h].content[4]] \in channels
      /\ hreply[h] \notin {"could_not_fetch", "KeyError", "ValueError", "Forbidden"} )
    => /\ hreply[h] = "tracking"
       /\ \E r \in Records(load_cache(file)) :
            r.key = hloc[h].key /\ r.message_id = nextId - 1

\* C6: a missing image file is never an error: no track command ends with
\* the error of opening images/<SYMBOL>.png.
C6_MissingImageIsNoError ==
  \A h \in Handlers : hpc[h] = "reply" => hreply[h] # "FileNotFoundError"

\* C7: the tick never writes the store: the file always holds what the
\* command handlers' last save wrote, also when a handler saved while the tick
\* was suspended.
C7_TickNeverWritesStore == file = written

\* The tick is suspended and a handler has saved the store since it loaded it.
C7_Witness ==
  /\ AtAwait
  /\ load_cache(file) # cache
  /\ file = written

\* C8: the message_id of every record in the store is the id of a message a
\* track command posted earlier.
C8_MessageIdWasPosted ==
  \A r \in Records(load_cache(file)) : r.message_id \in posted

\* A stored record whose message was posted and has been deleted since.
C8_Witness ==
  \E r \in Records(load_cache(file)) : r.message_id \in posted \ exists

\* C9: the refresh loop never terminates: whatever ended a tick, the task
\* is alive and another tick will begin.
C9_LoopNeverTerminates == loop # "failed"

\* A command fails: too few arguments, a channel id or amount that is no
\* number, a channel the client cannot resolve when the handler asks for it
\* (the handler was at pc from, before its first await), or a refused post.
FailedCommand(msg, reply, from, chans) ==
  \/ Len(msg.content) < 4
  \/ msg.content[4] \notin DOMAIN IntOf
  \/ Len(msg.content) > 4 /\ msg.content[5] \notin DOMAIN FloatOf
  \/ from = "idle" /\ IntOf[msg.content[4]] \notin chans
  \/ reply = "Forbidden"

Keys(c) == [i \in 1..Len(c) |-> c[i].key]

\* No two records of the cache share a key.
KeysDistinct(c) == \A i, j \in 1..Len(c) : c[i].key = c[j].key => i = j

\* C11: every track command that completed (its message is posted and its
\* save is done) has a record in the store, also when two handlers interleave
\* at the post between load_cache and save_cache: no record is replaced or
\* dropped by another command's save, and no two records share a key.
C11_EveryCompletedCommandKeepsItsRecord ==
  LET c == load_cache(file) IN
  /\ KeysDistinct(c)
  /\ \A id \in posted : \E r \in Records(c) : r.message_id = id

\* C12: every record in the store has a positive amount.
C12_StoredAmountIsPositive ==
  \A r \in Records(load_cache(file)) : r.amount > 0

\* C13: a tick processes the items one after the other in the order of the
\* store file as it is when the tick starts, beginning with the first: the
\* position moves by one item at a time, only once the current item has its
\* outcome, and an item that has its outcome is not processed again.
C13_ItemsInStoreOrder ==
  [][ /\ (~TickRunning /\ TickRunning') =>
           /\ Keys(cache') = [i \in 1..Len(file) |-> file[i].k]
           /\ idx' = 1
           /\ \A i \in 1..Len(cache') : outcome'[i] = "pending"
      /\ (TickRunning /\ TickRunning') =>
           /\ idx' \in {idx, idx + 1}
           /\ Keys(cache') = Keys(cache)
           /\ idx' = idx + 1 => (loop' = "item" /\ outcome'[idx] # "pending")
           /\ \A i \in 1..(idx - 1) : outcome'[i] = outcome[i] ]_vars

\* The tick is at the second of two items stored under different keys.
C13_Witness ==
  /\ loop = "fetch_message"
  /\ idx = 2
  /\ Len(cache) = 2
  /\ cache[1].key # cache[2].key
  /\ outcome[1] # "pending"

TwoDecimals(h) ==
  LET m == IF h < 0 THEN 0 - h ELSE h IN
  (IF h < 0 THEN "-" ELSE "") \o ToString(m \div 100) \o "." \o
  ToString((m % 100) \div 10) \o ToString(m % 10)

\* The hundredth nearest to v ten-thousandths.
Nearest(v) == IF v < 0 THEN 0 - ((50 - v) \div 100) ELSE (v + 50) \div 100

\* The arguments of the example: last 50000.00, change -1.23, amount 2.0, USD.
ExampleCall == [symbol |-> "BTC", fiat |-> "USD", data |-> GoodEntry, amount |-> 200]

\* C15: for valid arguments the embed shows the price, the 24h change and
\* the total, last * amount, each with two decimals; the example call gives
\* 'USD 50000.00', '-1.23%' and 'USD 100000.00'.
C15_TotalIsPriceTimesAmount ==
  rout # NotRendered =>
    /\ rout.err = "none"
    /\ rout.price = rin.fiat \o " " \o TwoDecimals(FloatOf[rin.data.last])
    /\ rout.change = TwoDecimals(FloatOf[rin.data.change]) \o "%"
    /\ rout.total = rin.fiat \o " " \o TwoDecimals(Nearest(FloatOf[rin.data.last] * rin.amount))
    /\ rin = ExampleCall =>
         (rout.price = "USD 50000.00" /\ rout.change = "-1.23%" /\ rout.total = "USD 100000.00")

\* The example call has been rendered.
C15_Witness ==
  /\ rin = ExampleCall
  /\ rout.total = "USD 100000.00"

\* C16: the steps of an item run in the order resolve channel, fetch price,
\* render, edit: for an item whose channel was not resolved the tick fetched
\* no price and called neither fetch_message nor edit, no message is fetched
\* before the price is, and no error of the missing channel leaves the tick.
C16_UnresolvedChannelMeansNoFetch ==
  /\ \A i \in 1..Len(outcome) :
       outcome[i] = "nochannel" =>
         /\ i \notin fetches
         /\ i \notin attempted
         /\ cache[i].message_id \notin edited
  /\ attempted \subseteq fetches
  /\ loopErr # "AttributeError"

\* The tick skipped the first item for its channel and is editing the second.
C16_Witness ==
  /\ loop = "edit"
  /\ idx = 2
  /\ outcome[1] = "nochannel"
  /\ fetches = {2}

C18_KeysAreFreshInTurn ==
  LET c == load_cache(file) IN
  /\ Len(c) = Cardinality(posted)
  /\ KeysDistinct(c)
  /\ \A h \in Handlers : hpc[h] = "post" => hloc[h].key \notin {r.key : r \in Records(c)}

\* Two commands for the same channel, symbol and fiat have completed.
C18_Witness ==
  LET c == load_cache(file) IN
  /\ Len(c) = 2
  /\ c[1].key = "1-BTC-USD-0"
  /\ c[2].key = "1-BTC-USD-1"
  /\ posted = {1, 2}

\* C19: a step of the tick posts no message and removes none, and edits at
\* most the message whose id the current item holds.
C19_TickEditsOnlyItsMessage ==
  [][ (TickRunning /\ TickMoved) =>
        /\ posted' = posted
        /\ nextId' = nextId
        /\ exists' = exists
        /\ edited' \subseteq edited \cup {cache[idx].message_id} ]_vars

\* The tick edited the message of its first item and is at the second.
C19_Witness ==
  /\ loop = "item"
  /\ idx = 2
  /\ edited = {cache[1].message_id}
  /\ posted = {1, 2}

\* C20: a track command whose price fetch returned absent sends the
\* could-not-fetch reply and nothing else: it does not load the store, and
\* the step leaves the store file and the posted messages as they were; the
\* reply sent, the handler is done.
C20_AbsentFetchOnlyReplies ==
  [][ \A h \in Handlers :
        /\ (hpc[h] = "idle" /\ hpc'[h] # "idle" /\ hloc'[h].data = None) =>
             /\ hpc'[h] = "reply"
             /\ hreply'[h] = "could_not_fetch"
             /\ ~hloc'[h].loaded
             /\ file' = file
             /\ <<nextId, posted, exists>>' = <<nextId, posted, exists>>
        /\ (hpc[h] = "reply" /\ hreply[h] = "could_not_fetch") =>
             /\ hpc'[h] \in {"reply", "idle"}
             /\ hreply'[h] \in {"could_not_fetch", "none"} ]_vars

\* The could-not-fetch reply is being sent while the store holds a record.
C20_Witness ==
  \E h \in Handlers :
    /\ hpc[h] = "reply"
    /\ hreply[h] = "could_not_fetch"
    /\ hloc[h].data = None
    /\ Len(file) > 0

====
